---------------------------- MODULE Spec2Model ----------------------------
(***************************************************************************)
(* PICO-8 sprite conversion scripts of harpomaxx/iueve:                    *)
(*   sprite_extractor.py        (multi-size 8/16/32 packer and encoder)    *)
(*   png_extract_all_sprites.py (16x16 sprites split into four 8x8 cells)  *)
(*   png_to_pico8.py            (single 16x16 image)                       *)
(*                                                                         *)
(* The sheet of sprite_extractor.py is a 128x128 list of palette indices.  *)
(* Every write the packer makes copies one whole 8x8 block of one sprite   *)
(* to one 8-aligned 8x8 block of the sheet, so the sheet is kept as a      *)
(* 16x16 grid of blocks, each naming the sprite block copied into it;      *)
(* PixelOf reads a pixel through that grid.                                *)
(***************************************************************************)
EXTENDS Integers, Sequences, FiniteSets, TLC

VARIABLES
    pc,            \* position of the running script
    args,          \* the script run and its --size argument
    image,         \* the decoded source image
    extracted,     \* the list the extraction returned
    sprites,       \* the sprites the packing loop has taken so far
    sprite_index,  \* sprites_to_pico8_format: the placement cursor
    sprite_sheet,  \* sprites_to_pico8_format: the sheet, by 8x8 block
    placed,        \* log of the placements made: which sprite went to which cell
    all_sprites,   \* the list extract_all_sprites returned
    gfx_count,     \* generate_gfx_output: how many sprites the loop has taken
    gfx_sheet,     \* generate_gfx_output: the sheet of 8-digit strings, by 8x8 block
    written,       \* log of the blocks generate_gfx_output wrote
    pixels,        \* a 128x128 sheet of palette indices handed to the encoders
    out,           \* the text each script wrote, as a list of lines
    rgb,           \* the pixel sample handed to the quantizers
    closest        \* the palette index each quantizer returned for rgb

packVars == <<sprites, sprite_index, sprite_sheet, placed>>
gfxVars == <<all_sprites, gfx_count, gfx_sheet, written>>
quantVars == <<rgb, closest>>
vars == <<pc, args, image, extracted, sprites, sprite_index, sprite_sheet,
          placed, all_sprites, gfx_count, gfx_sheet, written, pixels, out,
          rgb, closest>>

----------------------------------------------------------------------------
(* The two scripts modelled *)

SE == "sprite_extractor"
ALL == "png_extract_all_sprites"

----------------------------------------------------------------------------
(* Bounds of the explored inputs *)

\* packer: any sequence of at most MaxSprites sprites of mixed sizes
MaxSprites == 8
\* packer: a run of at most MaxLead sprites of one size (8x8 when a tail follows)
MaxLead == 257
\* packer: the run of 8x8 sprites is followed by at most MaxTail sprites of any size
MaxTail == 3
\* quantizer samples: every channel within MaxDelta of a base point
MaxDelta == 1
\* png_extract_all_sprites.py: images of at most MaxCols x MaxRows 16x16 sprites
MaxCols == 16
MaxRows == 8
\* both scripts: images of at most MaxSide x MaxSide blocks of 8 pixels
MaxSide == 4
\* encoders: sheets (a * x + b * y + c) % 16 with a, b <= MaxSlope
MaxSlope == 2
\* extraction: images of at most MaxPixels x MaxPixels pixels, of any width
\* and height
MaxPixels == 35

----------------------------------------------------------------------------
(* sprite_extractor.py: constants of sprites_to_pico8_format *)

sheet_size == 128
grid_size == sheet_size \div 8

SpriteSizes == {8, 16, 32}

Cells == 0 .. (grid_size - 1)

\* a sheet block still holding the initial colour 0
Blank == [src |-> -1, by |-> 0, bx |-> 0]

\* the sheet block holding block (by, bx) of the data of sprite id
Block(id, by, bx) == [src |-> id, by |-> by, bx |-> bx]

BlankSheet == [cy \in Cells |-> [cx \in Cells |-> Blank]]

\* sheet_x, sheet_y of the cursor, in pixels
SheetX(idx) == (idx % grid_size) * 8
SheetY(idx) == (idx \div grid_size) * 8

\* the fit check of an n x n block sprite at the cursor: TRUE when the sprite
\* is rejected
DoesNotFit_OffByOne(idx, n) ==
    \/ idx % grid_size > grid_size - n + 1
    \/ idx \div grid_size > grid_size - n

DoesNotFit(idx, n) ==
    \/ idx % grid_size > grid_size - n
    \/ idx \div grid_size > grid_size - n

\* the capacity check at the top of the loop: TRUE when the loop breaks
SheetFull_OffByOne(idx) == idx > grid_size * grid_size

SheetFull(idx) == idx >= grid_size * grid_size

\* where the loop goes after a failed fit check: continue
AfterNoFit_Break == "done"

AfterNoFit == "pack"

\* the cursor after a placed 8x8 sprite
Advance8(idx) == idx + 1

\* the cursor after a placed 16x16 sprite
Advance16_NoRowSkip(idx) == idx + 2

Advance16(idx) ==
    LET i1 == idx + 2
    IN  IF i1 % grid_size = 0 THEN i1 + grid_size ELSE i1

\* the cursor after a placed 32x32 sprite
SkipRow(idx) == IF idx % grid_size = 0 THEN idx + grid_size ELSE idx

Advance32(idx) == SkipRow(SkipRow(SkipRow(idx + 4)))

\* The chunk loops of a size-n*8 sprite (n = 1 is the direct 8x8 copy), in the
\* order the code runs them: chunk k (0-based) is (chunk_y, chunk_x) =
\* (k \div n, k % n).  A chunk whose target lies outside the 128x128 lists
\* raises IndexError at its first pixel; the chunks before it are written.
ChunkInSheet(idx, n, k) ==
    /\ SheetY(idx) + (k \div n) * 8 + 7 < sheet_size
    /\ SheetX(idx) + (k % n) * 8 + 7 < sheet_size

FirstBadChunk(idx, n) ==
    LET bad == {k \in 0 .. (n * n - 1) : ~ChunkInSheet(idx, n, k)}
    IN  IF bad = {} THEN n * n
        ELSE CHOOSE k \in bad : \A j \in bad : k <= j

WriteChunks(sheet, id, idx, n) ==
    LET cellX == idx % grid_size
        cellY == idx \div grid_size
        stop  == FirstBadChunk(idx, n)
    IN  [cy \in Cells |-> [cx \in Cells |->
            IF /\ cy >= cellY /\ cy < cellY + n
               /\ cx >= cellX /\ cx < cellX + n
               /\ (cy - cellY) * n + (cx - cellX) < stop
            THEN Block(id, cy - cellY, cx - cellX)
            ELSE sheet[cy][cx]]]

Footprint(size) == size \div 8

Min(a, b) == IF a < b THEN a ELSE b

AdvanceOf(size, idx) ==
    CASE size = 8  -> Advance8(idx)
      [] size = 16 -> Advance16(idx)
      [] size = 32 -> Advance32(idx)

\* one placement of the log
Placement(sprite, idx) ==
    [id |-> sprite.id, size |-> sprite.size,
     cellX |-> idx % grid_size, cellY |-> idx \div grid_size]

----------------------------------------------------------------------------
(* sprites_to_pico8_format: one iteration of `for sprite in sprites` *)

Iterate(sprite) ==
    /\ pc = "pack"
    /\ sprites' = Append(sprites, sprite)
    /\ UNCHANGED <<args, image, extracted, gfxVars, pixels, out, quantVars>>
    /\ IF SheetFull(sprite_index)
       THEN \* "Too many sprites": break
            /\ pc' = "done"
            /\ UNCHANGED <<sprite_index, sprite_sheet, placed>>
       ELSE IF sprite.size \notin SpriteSizes
       THEN \* no branch of the if/elif chain matches
            /\ UNCHANGED <<pc, sprite_index, sprite_sheet, placed>>
       ELSE IF sprite.size > 8 /\ DoesNotFit(sprite_index, Footprint(sprite.size))
       THEN \* "doesn't fit in remaining space": continue
            /\ pc' = AfterNoFit
            /\ UNCHANGED <<sprite_index, sprite_sheet, placed>>
       ELSE LET n == Footprint(sprite.size)
            IN  /\ sprite_sheet' = WriteChunks(sprite_sheet, sprite.id, sprite_index, n)
                /\ IF FirstBadChunk(sprite_index, n) < n * n
                   THEN \* list index out of range: the call ends in IndexError
                        /\ pc' = "IndexError"
                        /\ UNCHANGED <<sprite_index, placed>>
                   ELSE /\ pc' = pc
                        /\ sprite_index' = AdvanceOf(sprite.size, sprite_index)
                        /\ placed' = Append(placed, Placement(sprite, sprite_index))

\* the list is exhausted: return sprite_sheet
Return ==
    /\ pc = "pack"
    /\ pc' = "done"
    /\ UNCHANGED <<args, image, extracted, packVars, gfxVars, pixels, out,
                   quantVars>>

----------------------------------------------------------------------------
(* The packer on any sequence of sprites of sizes 8, 16 and 32 *)

\* the length of the leading run of 8x8 sprites
LeadLen(s) ==
    LET other == {k \in 1 .. Len(s) : s[k].size # 8}
    IN  IF other = {} THEN Len(s)
        ELSE (CHOOSE k \in other : \A j \in other : k <= j) - 1

\* The sequences explored: any sequence of at most MaxSprites sprites; any
\* run of at most MaxLead 8x8 sprites followed by at most MaxTail sprites of
\* any size; any sequence of at most MaxLead sprites of one size
InputOK(s) ==
    \/ Len(s) <= MaxSprites
    \/ /\ LeadLen(s) <= MaxLead
       /\ Len(s) - LeadLen(s) <= MaxTail
    \/ /\ Len(s) <= MaxLead
       /\ \A k \in 1 .. Len(s) : s[k].size = s[1].size

\* the variables a run does not use keep these values
NoArgs == [script |-> "none", size |-> 0]
NoImage == [width |-> 0, height |-> 0, fg |-> <<0, 0, 0, 0>>, bg |-> <<0, 0, 0, 0>>]
NoText == [script \in {SE, ALL} |-> <<>>]
NoSample == <<>>
NoIndex == [script \in {SE, ALL} |-> -1]

\* generate_gfx_output has not been called
GfxIdle ==
    /\ all_sprites = <<>>
    /\ gfx_count = 0
    /\ gfx_sheet = <<>>
    /\ written = <<>>

\* the state sprites_to_pico8_format starts its loop in
PackStart ==
    /\ sprites = <<>>
    /\ sprite_index = 0
    /\ sprite_sheet = BlankSheet
    /\ placed = <<>>

Init ==
    /\ pc = "pack"
    /\ args = [script |-> SE, size |-> 0]
    /\ image = NoImage
    /\ extracted = <<>>
    /\ PackStart
    /\ GfxIdle
    /\ pixels = <<>>
    /\ out = NoText
    /\ rgb = NoSample
    /\ closest = NoIndex

NextSprite ==
    \E size \in SpriteSizes :
        LET sprite == [id |-> Len(sprites), size |-> size]
        IN  /\ InputOK(Append(sprites, sprite))
            /\ Iterate(sprite)

Next == NextSprite \/ Return

Spec == Init /\ [][Next]_vars

----------------------------------------------------------------------------
(* The palette and the two quantizers *)

PICO8_PALETTE ==
    << <<0, 0, 0>>,       <<29, 43, 83>>,    <<126, 37, 83>>,   <<0, 135, 81>>,
       <<171, 82, 54>>,   <<95, 87, 79>>,    <<194, 195, 199>>, <<255, 241, 232>>,
       <<255, 0, 77>>,    <<255, 163, 0>>,   <<255, 236, 39>>,  <<0, 228, 54>>,
       <<41, 173, 255>>,  <<131, 118, 156>>, <<255, 119, 168>>, <<255, 204, 170>> >>

\* float('inf'), the first min_distance
Infinity == -1

\* sum((a - b) ** 2 for a, b in zip(rgb, palette_color)): zip stops at the
\* shorter of the two
Distance(sample, palette_color) ==
    LET n  == Min(Len(sample), Len(palette_color))
        sq(k) == (sample[k] - palette_color[k]) * (sample[k] - palette_color[k])
    IN  (IF n >= 1 THEN sq(1) ELSE 0) + (IF n >= 2 THEN sq(2) ELSE 0)
          + (IF n >= 3 THEN sq(3) ELSE 0)

\* `if distance < min_distance` of rgb_to_pico8_color
Closer_OrEqual(distance, min_distance) ==
    min_distance = Infinity \/ distance <= min_distance

Closer(distance, min_distance) ==
    min_distance = Infinity \/ distance < min_distance

\* the loop of rgb_to_pico8_color from palette entry i on
RECURSIVE ScanPalette(_, _, _, _)
ScanPalette(sample, i, min_distance, closest_color) ==
    IF i >= Len(PICO8_PALETTE) THEN closest_color
    ELSE LET distance == Distance(sample, PICO8_PALETTE[i + 1])
         IN  IF Closer(distance, min_distance)
             THEN ScanPalette(sample, i + 1, distance, i)
             ELSE ScanPalette(sample, i + 1, min_distance, closest_color)

rgb_to_pico8_color(sample) == ScanPalette(sample, 0, Infinity, 0)

\* `if distance < min_distance` of find_closest_pico8_color
CloserAll_OrEqual(distance, min_distance) ==
    min_distance = Infinity \/ distance <= min_distance

CloserAll(distance, min_distance) ==
    min_distance = Infinity \/ distance < min_distance

\* the loop of find_closest_pico8_color from palette entry i on
RECURSIVE ScanPaletteAll(_, _, _, _)
ScanPaletteAll(sample, i, min_distance, closest_color) ==
    IF i >= Len(PICO8_PALETTE) THEN closest_color
    ELSE LET distance == Distance(sample, PICO8_PALETTE[i + 1])
         IN  IF CloserAll(distance, min_distance)
             THEN ScanPaletteAll(sample, i + 1, distance, i)
             ELSE ScanPaletteAll(sample, i + 1, min_distance, closest_color)

find_closest_pico8_color(sample) ==
    IF Len(sample) = 4
    THEN IF sample[4] = 0 THEN 0
         ELSE ScanPaletteAll(SubSeq(sample, 1, 3), 0, Infinity, 0)
    ELSE ScanPaletteAll(sample, 0, Infinity, 0)

\* Image.convert('RGB') of an RGBA sample drops the alpha channel;
\* Image.convert("RGBA") of an RGBA sample is the sample
ConvertRGB(sample) == SubSeq(sample, 1, 3)
ConvertRGBA(sample) == sample

----------------------------------------------------------------------------
(* The quantizers on samples around the palette entries and around points  *)
(* at the same distance of two palette entries                             *)

\* <<0,84,13>>: entries 0 and 3; <<0,12,244>>: entries 1 and 12;
\* <<0,168,21>>: entries 3 and 11
TiePoints == {<<0, 84, 13>>, <<0, 12, 244>>, <<0, 168, 21>>}

Clip(v) == IF v < 0 THEN 0 ELSE IF v > 255 THEN 255 ELSE v

Deltas == (0 - MaxDelta) .. MaxDelta

SampleBases == {PICO8_PALETTE[i] : i \in 1 .. Len(PICO8_PALETTE)} \cup TiePoints

QuantSamples ==
    {<<Clip(b[1] + dr), Clip(b[2] + dg), Clip(b[3] + db), a>> :
        b \in SampleBases, dr \in Deltas, dg \in Deltas, db \in Deltas,
        a \in {0, 255}}

InitQuant ==
    /\ pc = "quantize"
    /\ args = NoArgs
    /\ image = NoImage
    /\ extracted = <<>>
    /\ PackStart
    /\ GfxIdle
    /\ pixels = <<>>
    /\ out = NoText
    /\ rgb \in QuantSamples
    /\ closest = NoIndex

\* sprite_extractor.py: the sample as extract_sprites_from_png hands it over
QuantizeSE ==
    /\ pc = "quantize"
    /\ closest[SE] = -1
    /\ closest' = [closest EXCEPT ![SE] = rgb_to_pico8_color(ConvertRGB(rgb))]
    /\ UNCHANGED <<pc, args, image, extracted, packVars, gfxVars, pixels, out, rgb>>

\* png_extract_all_sprites.py: the sample as extract_16x16_sprite hands it over
QuantizeAll ==
    /\ pc = "quantize"
    /\ closest[ALL] = -1
    /\ closest' = [closest EXCEPT ![ALL] = find_closest_pico8_color(ConvertRGBA(rgb))]
    /\ UNCHANGED <<pc, args, image, extracted, packVars, gfxVars, pixels, out, rgb>>

NextQuant == QuantizeSE \/ QuantizeAll

SpecQuant == InitQuant /\ [][NextQuant]_vars

----------------------------------------------------------------------------
(* Source images and the two extractions *)

\* The images explored are 8-pixel checkerboards of two RGBA samples, fg and
\* bg (of one colour when fg = bg): which of the two pixel (x, y) holds
PixelKind(x, y) == IF ((x \div 8) + (y \div 8)) % 2 = 0 THEN "fg" ELSE "bg"

\* Image.open(png_path) raises, or png_path does not exist: a PNG has no zero
\* side, and the files explored that are no image are those given a width or
\* a height of 0
Unreadable(img) == img.width = 0 \/ img.height = 0

\* Image.getpixel((x, y)) of the decoded PNG
getpixel(img, x, y) == img[PixelKind(x, y)]

\* rgb_to_pico8_color(rgb) for the samples of the image, as
\* extract_sprites_from_png computes it for every pixel it reads
PaletteTableSE(img) ==
    [fg |-> rgb_to_pico8_color(ConvertRGB(img.fg)),
     bg |-> rgb_to_pico8_color(ConvertRGB(img.bg))]

\* find_closest_pico8_color(pixel) for the samples of the image, as
\* extract_16x16_sprite computes it for every pixel it reads
PaletteTableAll(img) ==
    [fg |-> find_closest_pico8_color(ConvertRGBA(img.fg)),
     bg |-> find_closest_pico8_color(ConvertRGBA(img.bg))]

\* extract_sprites_from_png: the list returned, without the data arrays
extract_sprites_from_png(img, sprite_size) ==
    LET sprites_x == img.width \div sprite_size
        sprites_y == img.height \div sprite_size
    IN  [k \in 1 .. (sprites_x * sprites_y) |->
            [id |-> k - 1, x |-> (k - 1) % sprites_x,
             y |-> (k - 1) \div sprites_x, size |-> sprite_size]]

\* extract_sprites_from_png: sprite['data'][py][px], q being PaletteTableSE
SpriteData(q, sprite, py, px) ==
    q[PixelKind(sprite.x * sprite.size + px, sprite.y * sprite.size + py)]

\* extract_all_sprites: the list returned, without the data arrays
extract_all_sprites(img, sprite_size) ==
    LET sprites_horizontal == img.width \div sprite_size
        sprites_vertical == img.height \div sprite_size
    IN  [k \in 1 .. (sprites_horizontal * sprites_vertical) |->
            [index |-> k - 1,
             position |-> <<(k - 1) % sprites_horizontal,
                            (k - 1) \div sprites_horizontal>>]]

\* extract_16x16_sprite: sprite_data[y][x] of the sprite at the offsets, q
\* being PaletteTableAll
Sprite16Data(img, q, x_offset, y_offset, y, x) ==
    LET pixel_x == x_offset + x
        pixel_y == y_offset + y
    IN  IF pixel_x >= img.width \/ pixel_y >= img.height
        THEN 0
        ELSE q[PixelKind(pixel_x, pixel_y)]

Parts == <<"top_left", "top_right", "bottom_left", "bottom_right">>

\* split_16x16_to_8x8: where part `part` starts in the 16x16 data
PartX(part) == IF part \in {"top_right", "bottom_right"} THEN 8 ELSE 0
PartY(part) == IF part \in {"bottom_left", "bottom_right"} THEN 8 ELSE 0

\* extract_all_sprites: sprite[part], an 8x8 list of rows, of the sprite read
\* at x_offset = col * sprite_size, y_offset = row * sprite_size
PartData(img, q, sprite, sprite_size, part) ==
    [y \in 1 .. 8 |-> [x \in 1 .. 8 |->
        Sprite16Data(img, q, sprite.position[1] * sprite_size,
                     sprite.position[2] * sprite_size,
                     PartY(part) + y - 1, PartX(part) + x - 1)]]

----------------------------------------------------------------------------
(* Text: a line is a tuple of one-character strings *)

HexChars == <<"0", "1", "2", "3", "4", "5", "6", "7",
              "8", "9", "a", "b", "c", "d", "e", "f">>

\* the concatenation of the tuples of a tuple
RECURSIVE CatFrom(_, _)
CatFrom(parts, k) ==
    IF k > Len(parts) THEN <<>> ELSE parts[k] \o CatFrom(parts, k + 1)

Cat(parts) == CatFrom(parts, 1)

\* hex(color)[2:]
RECURSIVE HexOf(_)
HexOf(n) ==
    IF n < 16 THEN <<HexChars[n + 1]>>
    ELSE HexOf(n \div 16) \o <<HexChars[(n % 16) + 1]>>

\* f"{hex_byte:02x}"
Format02x_NoPad(n) == HexOf(n)

Format02x(n) == IF n < 16 THEN <<"0">> \o HexOf(n) ELSE HexOf(n)

\* a | b
RECURSIVE BitOr(_, _)
BitOr(a, b) ==
    IF a = 0 THEN b
    ELSE IF b = 0 THEN a
    ELSE (IF a % 2 = 1 \/ b % 2 = 1 THEN 1 ELSE 0)
             + 2 * BitOr(a \div 2, b \div 2)

\* hex_byte = (pixel1 << 4) | pixel2
PackByte_Swapped(pixel1, pixel2) == BitOr(pixel2 * 16, pixel1)

PackByte(pixel1, pixel2) == BitOr(pixel1 * 16, pixel2)

GfxHeader == <<"_", "_", "g", "f", "x", "_", "_">>

SaveHeader ==
    << <<"-", "-", " ", "P", "I", "C", "O", "-", "8", " ", "S", "p", "r",
       "i", "t", "e", " ", "D", "a", "t", "a">>,
       <<"-", "-", " ", "G", "e", "n", "e", "r", "a", "t", "e", "d", " ",
       "b", "y", " ", "s", "p", "r", "i", "t", "e", "_", "e", "x", "t",
       "r", "a", "c", "t", "o", "r", ".", "p", "y">>,
       <<>>,
       GfxHeader >>

\* save_pico8_sprite_data: the lines written, for a sheet indexed from 0
save_pico8_sprite_data(sheet) ==
    SaveHeader \o
    [y \in 1 .. 128 |->
        Cat([k \in 1 .. 64 |->
            LET x == 2 * (k - 1)
                pixel1 == sheet[y - 1][x]
                pixel2 == IF x + 1 < 128 THEN sheet[y - 1][x + 1] ELSE 0
            IN  Format02x(PackByte(pixel1, pixel2))])]

\* sprite_to_hex_string: one line per row of the sprite data
sprite_to_hex_string(sprite_data) ==
    [r \in 1 .. Len(sprite_data) |->
        Cat([c \in 1 .. Len(sprite_data[r]) |-> HexOf(sprite_data[r][c])])]

\* '00000000', the initial entry of the sheet of generate_gfx_output
Zeros8 == <<"0", "0", "0", "0", "0", "0", "0", "0">>

\* generate_gfx_output: output_lines, for a sheet of strings whose block
\* (row, col) holds the 8 strings cellLines[row][col]
GfxText(cellLines) ==
    <<GfxHeader>> \o
    [y \in 1 .. 128 |->
        Cat([c \in 1 .. 16 |-> cellLines[(y - 1) \div 8][c - 1][((y - 1) % 8) + 1]])]

\* the lines of a text after its __gfx__ line
GfxSection(text) ==
    LET at == {k \in 1 .. Len(text) : text[k] = GfxHeader}
    IN  IF at = {} THEN <<>>
        ELSE SubSeq(text, (CHOOSE k \in at : \A j \in at : k <= j) + 1, Len(text))

----------------------------------------------------------------------------
(* generate_gfx_output *)

\* an entry of the sheet still holding '00000000' in its 8 lines
GBlank == [src |-> -1, part |-> "none"]

BlankGfxSheet == [row \in Cells |-> [col \in Cells |-> GBlank]]

\* tl_sprite_id, tr_sprite_id, bl_sprite_id, br_sprite_id
PartSpriteId(index, part) ==
    LET base_sprite == index * 2
    IN  CASE part = "top_left"     -> base_sprite
          [] part = "top_right"    -> base_sprite + 1
          [] part = "bottom_left"  -> base_sprite + 16
          [] part = "bottom_right" -> base_sprite + 17

\* `if row * 8 + i < 128`, for line i of a part: the same answer for the
\* eight lines of a part, so a part is written whole or not at all
LineWritten(row, i) == row * 8 + i < 128

PartWritten(index, part) ==
    \A i \in 0 .. 7 : LineWritten(PartSpriteId(index, part) \div 16, i)

\* the blocks one sprite writes
WritesOf(index) ==
    SelectSeq([k \in 1 .. 4 |->
                  [index |-> index, part |-> Parts[k],
                   row |-> PartSpriteId(index, Parts[k]) \div 16,
                   col |-> PartSpriteId(index, Parts[k]) % 16]],
              LAMBDA w : PartWritten(w.index, w.part))

\* the sheet after the four `for i, line in enumerate(...)` loops of a sprite
PlaceParts(sheet, index) ==
    LET w == WritesOf(index)
    IN  [row \in Cells |-> [col \in Cells |->
            IF \E k \in 1 .. Len(w) : w[k].row = row /\ w[k].col = col
            THEN [src |-> index,
                  part |-> w[CHOOSE k \in 1 .. Len(w) :
                                w[k].row = row /\ w[k].col = col].part]
            ELSE sheet[row][col]]]

\* the 8 strings of block (row, col) of the sheet of strings, q being
\* PaletteTableAll
GfxCellLines(q, row, col) ==
    LET b == gfx_sheet[row][col]
    IN  IF b.src = -1 THEN [i \in 1 .. 8 |-> Zeros8]
        ELSE sprite_to_hex_string(PartData(image, q, all_sprites[b.src + 1], 16, b.part))

\* main of png_extract_all_sprites.py: sprites = extract_all_sprites(png_path);
\* `if sprites is None: sys.exit(1)`, else generate_gfx_output starts
ExtractAll ==
    /\ pc = "extract_all"
    /\ IF Unreadable(image)
       THEN \* the path does not exist or Image.open raises: None is returned
            /\ pc' = "all_exit1"
            /\ UNCHANGED gfxVars
       ELSE /\ all_sprites' = extract_all_sprites(image, 16)
            /\ gfx_count' = 0
            /\ gfx_sheet' = BlankGfxSheet
            /\ written' = <<>>
            /\ pc' = "gfx"
    /\ UNCHANGED <<args, image, extracted, packVars, pixels, out, quantVars>>

\* generate_gfx_output: one iteration of `for sprite in sprites`
GfxIterate ==
    /\ pc = "gfx"
    /\ gfx_count < Len(all_sprites)
    /\ LET sprite == all_sprites[gfx_count + 1]
       IN  /\ gfx_sheet' = PlaceParts(gfx_sheet, sprite.index)
           /\ written' = written \o WritesOf(sprite.index)
    /\ gfx_count' = gfx_count + 1
    /\ UNCHANGED <<pc, args, image, extracted, packVars, all_sprites, pixels,
                   out, quantVars>>

\* generate_gfx_output: the loop is over, the lines are joined and returned
GfxOutput ==
    /\ pc = "gfx"
    /\ gfx_count = Len(all_sprites)
    /\ LET q == PaletteTableAll(image)
           lines == [row \in Cells |-> [col \in Cells |-> GfxCellLines(q, row, col)]]
       IN  out' = [out EXCEPT ![ALL] = GfxText(lines)]
    /\ pc' = "gfx_done"
    /\ UNCHANGED <<args, image, extracted, packVars, gfxVars, pixels, quantVars>>

----------------------------------------------------------------------------
(* png_extract_all_sprites.py on images of up to MaxCols x MaxRows sprites *)

Red == <<255, 0, 77, 255>>
Black == <<0, 0, 0, 255>>
NearRed == <<250, 10, 70, 255>>
Clear == <<9, 9, 9, 0>>

GfxImages ==
    {[width |-> 16 * c + r, height |-> 16 * w + r, fg |-> p[1], bg |-> p[2]] :
        c \in 0 .. MaxCols, w \in 0 .. MaxRows, r \in {0, 5},
        p \in {<<Red, Black>>}}

InitGfx ==
    /\ pc = "extract_all"
    /\ args = [script |-> ALL, size |-> 16]
    /\ image \in GfxImages
    /\ extracted = <<>>
    /\ PackStart
    /\ GfxIdle
    /\ pixels = <<>>
    /\ out = NoText
    /\ rgb = NoSample
    /\ closest = NoIndex

NextGfx == ExtractAll \/ GfxIterate \/ GfxOutput

SpecGfx == InitGfx /\ [][NextGfx]_vars

----------------------------------------------------------------------------
(* main of sprite_extractor.py *)

\* the 128x128 list of palette indices the block grid stands for, q being
\* PaletteTableSE of the image
PixelSheet(q) ==
    [y \in 0 .. 127 |-> [x \in 0 .. 127 |->
        LET b == sprite_sheet[y \div 8][x \div 8]
        IN  IF b.src = -1 THEN 0
            ELSE SpriteData(q, extracted[b.src + 1],
                            b.by * 8 + (y % 8), b.bx * 8 + (x % 8))]]

\* sprites = extract_sprites_from_png(...); `if not sprites: return 1`
ExtractSE ==
    /\ pc = "extract"
    /\ extracted' = IF Unreadable(image)
                    THEN <<>>   \* `except Exception`: return []
                    ELSE extract_sprites_from_png(image, args.size)
    /\ pc' = IF extracted' = <<>> THEN "exit1" ELSE "pack"
    /\ UNCHANGED <<args, image, packVars, gfxVars, pixels, out, quantVars>>

\* sprites_to_pico8_format(sprites, args.size): the loop takes the next sprite
PackExtracted ==
    /\ Len(sprites) < Len(extracted)
    /\ Iterate(extracted[Len(sprites) + 1])

\* sprites_to_pico8_format(sprites, args.size): the loop ran out of sprites
ReturnExhausted ==
    /\ Len(sprites) = Len(extracted)
    /\ Return

\* save_pico8_sprite_data(sprite_sheet, p8_output)
Save ==
    /\ pc = "done"
    /\ out' = [out EXCEPT ![SE] = save_pico8_sprite_data(PixelSheet(PaletteTableSE(image)))]
    /\ pc' = "saved"
    /\ UNCHANGED <<args, image, extracted, packVars, gfxVars, pixels, quantVars>>

\* sprite_extractor.py has ended; png_extract_all_sprites.py is run on the
\* same file
RunAll ==
    /\ pc \in {"saved", "exit1"}
    /\ pc' = "extract_all"
    /\ args' = [args EXCEPT !.script = ALL]
    /\ UNCHANGED <<image, extracted, packVars, gfxVars, pixels, out, quantVars>>

----------------------------------------------------------------------------
(* Both scripts, one after the other, on images of up to MaxSide x MaxSide *)
(* blocks of 8 pixels                                                      *)

Paints == {<<Red, Red>>, <<Red, Black>>, <<NearRed, Clear>>}

PipeImages ==
    {[width |-> 8 * c, height |-> 8 * r, fg |-> p[1], bg |-> p[2]] :
        c \in 0 .. MaxSide, r \in 0 .. MaxSide, p \in Paints}

InitPipe ==
    /\ pc = "extract"
    /\ args \in [script : {SE}, size : SpriteSizes]
    /\ image \in PipeImages
    /\ extracted = <<>>
    /\ PackStart
    /\ GfxIdle
    /\ pixels = <<>>
    /\ out = NoText
    /\ rgb = NoSample
    /\ closest = NoIndex

NextPipe ==
    \/ ExtractSE
    \/ PackExtracted
    \/ ReturnExhausted
    \/ Save
    \/ RunAll
    \/ ExtractAll
    \/ GfxIterate
    \/ GfxOutput

SpecPipe == InitPipe /\ [][NextPipe]_vars

----------------------------------------------------------------------------
(* The two encoders on one sheet of palette indices *)

EncSheets ==
    {[y \in 0 .. 127 |-> [x \in 0 .. 127 |-> (a * x + b * y + c) % 16]] :
        a \in 0 .. MaxSlope, b \in 0 .. MaxSlope, c \in 0 .. 15}

\* the 8x8 block (row, col) of a sheet, as a list of rows
BlockOf(sheet, row, col) ==
    [y \in 1 .. 8 |-> [x \in 1 .. 8 |-> sheet[row * 8 + y - 1][col * 8 + x - 1]]]

InitEnc ==
    /\ pc = "encode"
    /\ args = NoArgs
    /\ image = NoImage
    /\ extracted = <<>>
    /\ PackStart
    /\ GfxIdle
    /\ pixels \in EncSheets
    /\ out = NoText
    /\ rgb = NoSample
    /\ closest = NoIndex

\* save_pico8_sprite_data on the sheet
EncodeSE ==
    /\ pc = "encode"
    /\ out[SE] = <<>>
    /\ out' = [out EXCEPT ![SE] = save_pico8_sprite_data(pixels)]
    /\ UNCHANGED <<pc, args, image, extracted, packVars, gfxVars, pixels, quantVars>>

\* sprite_to_hex_string on every 8x8 block of the sheet, the strings joined
\* as generate_gfx_output joins them
EncodeAll ==
    /\ pc = "encode"
    /\ out[ALL] = <<>>
    /\ LET lines == [row \in Cells |-> [col \in Cells |->
                        sprite_to_hex_string(BlockOf(pixels, row, col))]]
       IN  out' = [out EXCEPT ![ALL] = GfxText(lines)]
    /\ UNCHANGED <<pc, args, image, extracted, packVars, gfxVars, pixels, quantVars>>

NextEnc == EncodeSE \/ EncodeAll

SpecEnc == InitEnc /\ [][NextEnc]_vars

----------------------------------------------------------------------------
(* The two extractions, loop by loop and with the data they collect, on    *)
(* images of any width and height up to MaxPixels                          *)

\* `width // sprite_size`, `height // sprite_size`
SpritesAcross_Ceil(extent, sprite_size) == (extent + sprite_size - 1) \div sprite_size

SpritesAcross(extent, sprite_size) == extent \div sprite_size

\* extract_sprites_from_png: sprite_data of the sprite cropped at (x, y), q
\* being PaletteTableSE
CropData(q, x, y, sprite_size) ==
    [py \in 1 .. sprite_size |-> [px \in 1 .. sprite_size |->
        SpriteData(q, [x |-> x, y |-> y, size |-> sprite_size], py - 1, px - 1)]]

\* extract_sprites_from_png: `for x in range(sprites_x)` from x on, in row y
RECURSIVE ExtractRow(_, _, _, _, _, _)
ExtractRow(img, q, sprite_size, y, x, acc) ==
    IF x >= SpritesAcross(img.width, sprite_size) THEN acc
    ELSE ExtractRow(img, q, sprite_size, y, x + 1,
             Append(acc, [id |-> Len(acc), x |-> x, y |-> y,
                          size |-> sprite_size,
                          data |-> CropData(q, x, y, sprite_size)]))

\* extract_sprites_from_png: `for y in range(sprites_y)` from y on
RECURSIVE ExtractRows(_, _, _, _, _)
ExtractRows(img, q, sprite_size, y, acc) ==
    IF y >= SpritesAcross(img.height, sprite_size) THEN acc
    ELSE ExtractRows(img, q, sprite_size, y + 1,
             ExtractRow(img, q, sprite_size, y, 0, acc))

\* extract_all_sprites: `for col in range(sprites_horizontal)` from col on
RECURSIVE ExtractAllRow(_, _, _, _, _, _)
ExtractAllRow(img, q, sprite_size, row, col, acc) ==
    IF col >= SpritesAcross(img.width, sprite_size) THEN acc
    ELSE LET index == row * SpritesAcross(img.width, sprite_size) + col
             at == [position |-> <<col, row>>]
         IN  ExtractAllRow(img, q, sprite_size, row, col + 1,
                 Append(acc, [index |-> index,
                              position |-> <<col, row>>,
                              top_left |-> PartData(img, q, at, sprite_size, "top_left"),
                              top_right |-> PartData(img, q, at, sprite_size, "top_right"),
                              bottom_left |-> PartData(img, q, at, sprite_size, "bottom_left"),
                              bottom_right |-> PartData(img, q, at, sprite_size, "bottom_right")]))

\* extract_all_sprites: `for row in range(sprites_vertical)` from row on
RECURSIVE ExtractAllRows(_, _, _, _, _)
ExtractAllRows(img, q, sprite_size, row, acc) ==
    IF row >= SpritesAcross(img.height, sprite_size) THEN acc
    ELSE ExtractAllRows(img, q, sprite_size, row + 1,
             ExtractAllRow(img, q, sprite_size, row, 0, acc))

CellImages ==
    {[width |-> w, height |-> h, fg |-> p[1], bg |-> p[2]] :
        w \in 0 .. MaxPixels, h \in 0 .. MaxPixels,
        p \in {<<NearRed, Clear>>}}

InitCells ==
    /\ pc = "cells"
    /\ args \in [script : {SE}, size : SpriteSizes]
    /\ image \in CellImages
    /\ extracted = <<>>
    /\ PackStart
    /\ GfxIdle
    /\ pixels = <<>>
    /\ out = NoText
    /\ rgb = NoSample
    /\ closest = NoIndex

\* sprite_extractor.py: extract_sprites_from_png(args.input_png, args.size)
ExtractCells ==
    /\ pc = "cells"
    /\ extracted' = IF Unreadable(image)
                    THEN <<>>   \* `except Exception`: return []
                    ELSE ExtractRows(image, PaletteTableSE(image), args.size, 0, <<>>)
    /\ pc' = "cells_all"
    /\ UNCHANGED <<args, image, packVars, gfxVars, pixels, out, quantVars>>

\* png_extract_all_sprites.py on the same file: extract_all_sprites(png_path)
ExtractAllCells ==
    /\ pc = "cells_all"
    /\ IF Unreadable(image)
       THEN \* the path does not exist or Image.open raises: None is returned
            /\ pc' = "cells_none"
            /\ UNCHANGED all_sprites
       ELSE /\ all_sprites' = ExtractAllRows(image, PaletteTableAll(image), 16, 0, <<>>)
            /\ pc' = "cells_done"
    /\ UNCHANGED <<args, image, extracted, packVars, gfx_count, gfx_sheet,
                   written, pixels, out, quantVars>>

NextCells == ExtractCells \/ ExtractAllCells

SpecCells == InitCells /\ [][NextCells]_vars

----------------------------------------------------------------------------
(* Properties of sprites_to_pico8_format *)

F(p) == Footprint(p.size)

CursorOf(p) == p.cellY * grid_size + p.cellX

\* two placements that write a common 8x8 cell of the sheet
Overlap(p, q) ==
    /\ p.cellX < q.cellX + F(q) /\ q.cellX < p.cellX + F(p)
    /\ p.cellY < q.cellY + F(q) /\ q.cellY < p.cellY + F(p)

\* the ids of the sprites the loop took without placing them
NotPlaced == {k \in 0 .. (Len(sprites) - 1) :
                 \A j \in 1 .. Len(placed) : placed[j].id # k}

\* C1: for any sequence of sprites of sizes 8, 16 and 32, no two placed
\* sprites write to the same 8x8 destination cell of the sheet.
C1_NoOverlap ==
    \A i \in 1 .. Len(placed) : \A j \in 1 .. Len(placed) :
        i < j => ~Overlap(placed[i], placed[j])

\* C2 as claimed: a placed sprite of footprint F > 1 at row cellY reserves F
\* full rows: the next sprite placed begins at the start of row cellY + F; a
\* 32x32 sprite followed by an 8x8 sprite puts the 8x8 sprite at cell (0,4).
C2_ReservesFullRows ==
    /\ \A j \in 1 .. (Len(placed) - 1) :
          placed[j].size > 8 =>
              /\ placed[j + 1].cellX = 0
              /\ placed[j + 1].cellY = placed[j].cellY + F(placed[j])
    /\ (Len(placed) = 2 /\ Len(sprites) = 2
           /\ sprites[1].size = 32 /\ sprites[2].size = 8) =>
              /\ placed[1].cellX = 0 /\ placed[1].cellY = 0
              /\ placed[2].cellX = 0 /\ placed[2].cellY = 4

\* the cell index the amended C2 gives for the sprite placed after p
NextAfter(p) ==
    IF p.cellX + F(p) < grid_size
    THEN CursorOf(p) + F(p)
    ELSE (p.cellY + F(p)) * grid_size

\* C2 amended: a placed sprite of footprint F > 1 at (cellX, cellY) moves the
\* cursor F cells to the right in the same row; only when that reaches the end
\* of the row (cellX + F = 16) does the cursor go to the start of row
\* cellY + F.  A 32x32 sprite followed by an 8x8 sprite puts the 32x32 sprite
\* on cells (0,0)-(3,3) and the 8x8 sprite at cell (4,0).
C2_AdvanceInRowThenSkipRows ==
    /\ \A j \in 1 .. Len(placed) :
          placed[j].size > 8 =>
              NextAfter(placed[j]) =
                  IF j < Len(placed) THEN CursorOf(placed[j + 1])
                  ELSE sprite_index
    /\ (Len(placed) = 2 /\ Len(sprites) = 2
           /\ sprites[1].size = 32 /\ sprites[2].size = 8) =>
              /\ placed[1].cellX = 0 /\ placed[1].cellY = 0
              /\ \A cy \in 0 .. 3 : \A cx \in 0 .. 3 :
                    sprite_sheet[cy][cx] = Block(0, cy, cx)
              /\ placed[2].cellX = 4 /\ placed[2].cellY = 0
              /\ sprite_sheet[0][4] = Block(1, 0, 0)

\* a multi-cell sprite was placed at the end of a row and the next sprite was
\* placed at the start of the row below its footprint
C2_Witness ==
    \E j \in 1 .. (Len(placed) - 1) :
        /\ placed[j].size > 8
        /\ placed[j].cellX + F(placed[j]) = grid_size
        /\ placed[j + 1].cellX = 0
        /\ placed[j + 1].cellY = placed[j].cellY + F(placed[j])

\* C3: every sprite placed with footprint F > 1 at (cellX, cellY) has
\* cellX + F <= 16 and cellY + F <= 16, and no write targets a pixel outside
\* the 128x128 sheet (the call never ends in IndexError).
C3_PlacedInsideSheet ==
    /\ pc # "IndexError"
    /\ \A j \in 1 .. Len(placed) :
          /\ placed[j].size > 8 =>
                /\ placed[j].cellX + F(placed[j]) <= grid_size
                /\ placed[j].cellY + F(placed[j]) <= grid_size
          /\ placed[j].cellX * 8 + placed[j].size <= sheet_size
          /\ placed[j].cellY * 8 + placed[j].size <= sheet_size

\* a multi-cell sprite was rejected, and a later one was placed touching the
\* right and the bottom edge of the grid
C3_Witness ==
    /\ \E k \in NotPlaced : sprites[k + 1].size > 8
    /\ \E j \in 1 .. Len(placed) :
          /\ placed[j].size > 8
          /\ placed[j].cellX + F(placed[j]) = grid_size
          /\ placed[j].cellY + F(placed[j]) = grid_size

AllSmall == \A k \in 1 .. Len(sprites) : sprites[k].size = 8

\* C4: packing 8x8 sprites only places the k-th sprite (k = 0..255) in cell
\* (k % 16, k / 16); once the cursor is 256 placement halts: the 257th sprite
\* is dropped, the loop ends and the sheet holds exactly the first 256.
C4_CapacityExhaustion ==
    AllSmall =>
        LET m == Min(Len(sprites), grid_size * grid_size)
        IN  /\ sprite_index = m
            /\ Len(placed) = m
            /\ \A k \in 0 .. (grid_size * grid_size - 1) :
                  sprite_sheet[k \div grid_size][k % grid_size] =
                      IF k < m THEN Block(k, 0, 0) ELSE Blank
            /\ Len(sprites) > grid_size * grid_size => pc = "done"
            /\ pc \in {"pack", "done"}

\* the 257th 8x8 sprite has been taken
C4_Witness ==
    /\ AllSmall
    /\ Len(sprites) = grid_size * grid_size + 1
    /\ pc = "done"

\* the sprite the step takes does not fit at the cursor, as the fit check of
\* the specification words it
TakesUnfit ==
    /\ pc = "pack"
    /\ Len(sprites') = Len(sprites) + 1
    /\ sprite_index < grid_size * grid_size
    /\ LET size == sprites'[Len(sprites')].size
       IN  /\ size \in {16, 32}
           /\ \/ (sprite_index % grid_size) + Footprint(size) > grid_size
              \/ (sprite_index \div grid_size) + Footprint(size) > grid_size

\* C5: a step that takes a 16x16 or 32x32 sprite that does not fit at the
\* cursor (the cursor being a cell of the sheet) leaves the sheet and the
\* cursor unchanged and leaves the loop running: the next sprite is taken at
\* the same cursor.
C5_UnfitSpriteIsSkipped ==
    [][TakesUnfit =>
          /\ sprite_sheet' = sprite_sheet
          /\ sprite_index' = sprite_index
          /\ placed' = placed
          /\ pc' = "pack"]_vars

\* a multi-cell sprite was skipped and the sprite after it was placed at the
\* cursor the skipped one was tried at
C5_Witness ==
    \E k \in NotPlaced :
        /\ sprites[k + 1].size > 8
        /\ Len(placed) > 1
        /\ placed[Len(placed)].id = k + 1
        /\ placed[Len(placed) - 1].id = k - 1
        /\ CursorOf(placed[Len(placed)]) =
               AdvanceOf(placed[Len(placed) - 1].size,
                         CursorOf(placed[Len(placed) - 1]))

----------------------------------------------------------------------------
(* Properties of the quantizers *)

RGBOf(sample) == SubSeq(sample, 1, 3)

\* index i is at minimum distance of the sample, and is the lowest such index
NearestLowest(sample, i) ==
    /\ i \in 0 .. 15
    /\ \A j \in 0 .. 15 :
          Distance(RGBOf(sample), PICO8_PALETTE[i + 1])
              <= Distance(RGBOf(sample), PICO8_PALETTE[j + 1])
    /\ \A j \in 0 .. 15 :
          j < i => Distance(RGBOf(sample), PICO8_PALETTE[j + 1])
                       > Distance(RGBOf(sample), PICO8_PALETTE[i + 1])

\* C10: for an opaque RGB sample both quantizers return an index in 0..15 of
\* a palette entry at minimum squared Euclidean distance, the lowest index
\* among the entries at that distance.
C10_NearestLowestIndex ==
    rgb # NoSample /\ rgb[4] = 255 =>
        /\ closest[SE] # -1 => NearestLowest(rgb, closest[SE])
        /\ closest[ALL] # -1 => NearestLowest(rgb, closest[ALL])

\* both quantizers have answered for an opaque sample at the same distance
\* of two palette entries, both nearest
C10_Witness ==
    /\ rgb # NoSample /\ rgb[4] = 255
    /\ closest[SE] # -1 /\ closest[ALL] # -1
    /\ \E i \in 0 .. 15 : \E j \in 0 .. 15 :
          /\ i < j
          /\ NearestLowest(rgb, i)
          /\ Distance(RGBOf(rgb), PICO8_PALETTE[j + 1])
                 = Distance(RGBOf(rgb), PICO8_PALETTE[i + 1])

----------------------------------------------------------------------------
(* Properties of generate_gfx_output *)

\* C6: for a list of sprites with pairwise distinct indices, the cells of
\* one sprite (2N, 2N+1, 2N+16, 2N+17) are never written by another sprite.
C6_NoOverlapGfx ==
    \A i \in 1 .. Len(written) : \A j \in 1 .. Len(written) :
        (written[i].index # written[j].index)
            => <<written[i].row, written[i].col>> # <<written[j].row, written[j].col>>

\* C7: for every sprite the loop has taken, all four of its 8x8 quadrants
\* were written or none was.
C7_AllOrNothing ==
    \A k \in 1 .. gfx_count :
        LET idx == all_sprites[k].index
            n == Cardinality({i \in 1 .. Len(written) : written[i].index = idx})
        IN  n = 0 \/ n = 4

----------------------------------------------------------------------------
(* Properties of the encoders and of the whole scripts *)

RedImage == [width |-> 16, height |-> 16, fg |-> Red, bg |-> Red]

\* 128 lines of 128 digits: sixteen 8s at the start of the first 16 lines,
\* 0 everywhere else
RedText ==
    [y \in 1 .. 128 |-> [x \in 1 .. 128 |->
        IF y <= 16 /\ x <= 16 THEN "8" ELSE "0"]]

\* C8: a solid 16x16 image of palette colour 8 (255,0,77), extracted with
\* cell size 16, packed and encoded, gives a sheet whose first 16 lines begin
\* with 16 digits 8 and whose every other digit is 0, in sprite_extractor.py
\* and in png_extract_all_sprites.py.
C8_RoundTrip ==
    image = RedImage =>
        /\ (args.size = 16 /\ out[SE] # <<>>) => GfxSection(out[SE]) = RedText
        /\ out[ALL] # <<>> => GfxSection(out[ALL]) = RedText

\* both scripts have written their text for the solid red 16x16 image
C8_Witness ==
    /\ image = RedImage
    /\ args.size = 16
    /\ out[SE] # <<>>
    /\ out[ALL] # <<>>

\* text t is 128 lines of 128 lowercase hex digits, digit x of line y being
\* the digit of pixels[y][x]
IsSheetText(t) ==
    /\ Len(t) = 128
    /\ \A y \in 1 .. 128 :
          /\ Len(t[y]) = 128
          /\ \A x \in 1 .. 128 : t[y][x] = HexChars[pixels[y - 1][x - 1] + 1]

\* C9: for a sheet of values in 0..15 the text after the __gfx__ line is 128
\* lines of 128 lowercase hex digits, one per pixel in scan order, and the
\* byte-packing encoder and the digit-per-pixel encoder write the same lines.
C9_EncodersAgree ==
    pc = "encode" =>
        /\ out[SE] # <<>> => IsSheetText(GfxSection(out[SE]))
        /\ out[ALL] # <<>> => IsSheetText(GfxSection(out[ALL]))
        /\ (out[SE] # <<>> /\ out[ALL] # <<>>)
              => GfxSection(out[SE]) = GfxSection(out[ALL])

\* both encoders have run on a sheet holding a 0, a 15 and, within one byte,
\* two different values
C9_Witness ==
    /\ pc = "encode"
    /\ out[SE] # <<>>
    /\ out[ALL] # <<>>
    /\ pixels[0][0] = 0
    /\ pixels[0][1] # pixels[0][0]
    /\ \E x \in 0 .. 127 : pixels[0][x] = 15

----------------------------------------------------------------------------
(* Transparent samples *)

\* C11: in both scripts a source pixel whose alpha is 0 is quantized to
\* palette index 0, whatever its RGB value.
C11_TransparencyCollapse ==
    rgb # NoSample /\ rgb[4] = 0 =>
        /\ closest[SE] # -1 => closest[SE] = 0
        /\ closest[ALL] # -1 => closest[ALL] = 0

\* C11, as far as it is about png_extract_all_sprites.py alone
C11_CollapseAll ==
    rgb # NoSample /\ rgb[4] = 0 /\ closest[ALL] # -1 => closest[ALL] = 0

----------------------------------------------------------------------------
(* Properties of the extractions *)

\* floor(extent / cell): the c with c * cell <= extent < (c + 1) * cell
Floor(extent, cell) ==
    CHOOSE c \in 0 .. extent : c * cell <= extent /\ extent < (c + 1) * cell

\* rows is a list of `side` lists of `side` palette indices
IsSquareOfIndices(rows, side) ==
    /\ DOMAIN rows = 1 .. side
    /\ \A y \in 1 .. side :
          /\ DOMAIN rows[y] = 1 .. side
          /\ \A x \in 1 .. side : rows[y][x] \in 0 .. 15

\* the cells of sprite_extractor.py are those of the grid, in row-major order
CellsOfSE ==
    LET S    == args.size
        cols == Floor(image.width, S)
        rows == Floor(image.height, S)
    IN  /\ Len(extracted) = cols * rows
        /\ image.width < S \/ image.height < S => extracted = <<>>
        /\ \A k \in 1 .. Len(extracted) :
              LET c == extracted[k]
              IN  /\ c.x \in 0 .. (cols - 1)
                  /\ c.y \in 0 .. (rows - 1)
                  /\ c.id = c.y * cols + c.x
                  /\ c.id = k - 1
                  /\ IsSquareOfIndices(c.data, S)

\* the cells of png_extract_all_sprites.py are those of the grid of 16x16
\* cells, in row-major order; a cell's 16x16 indices are kept as four 8x8
\* quarters
CellsOfAll ==
    LET cols == Floor(image.width, 16)
        rows == Floor(image.height, 16)
    IN  /\ Len(all_sprites) = cols * rows
        /\ image.width < 16 \/ image.height < 16 => all_sprites = <<>>
        /\ \A k \in 1 .. Len(all_sprites) :
              LET c == all_sprites[k]
              IN  /\ c.position[1] \in 0 .. (cols - 1)
                  /\ c.position[2] \in 0 .. (rows - 1)
                  /\ c.index = c.position[2] * cols + c.position[1]
                  /\ c.index = k - 1
                  /\ \A i \in 1 .. Len(Parts) : IsSquareOfIndices(c[Parts[i]], 8)

\* C12: for an image of size WxH and cell size S, extraction
\* (extract_sprites_from_png, and extract_all_sprites with S = 16) emits
\* exactly floor(W/S) * floor(H/S) cells in row-major order, the cell at grid
\* position (gridX, gridY) carrying id = gridY * cols + gridX and holding
\* exactly SxS indices in 0..15; an image smaller than one cell in either
\* dimension yields no cell.
C12_GridExtraction ==
    /\ pc \in {"cells_all", "cells_done"} => CellsOfSE
    /\ pc = "cells_done" => CellsOfAll

\* both extractions have run on an image whose width and height are not
\* multiples of the cell size and that holds more than one row and more than
\* one column of cells, in both scripts
C12_Witness ==
    /\ pc = "cells_done"
    /\ image.width % 16 # 0 /\ image.height % 16 # 0
    /\ image.width % args.size # 0 /\ image.height % args.size # 0
    /\ image.width # image.height
    /\ Len(all_sprites) = 4
    /\ Len(extracted) > 4
    /\ extracted[Len(extracted)].x > 0 /\ extracted[Len(extracted)].y > 0

\* both extractions have run on an image narrower than every cell size
C12_WitnessSmall ==
    /\ pc = "cells_done"
    /\ image.width \in 1 .. 7 /\ image.height > 32
    /\ extracted = <<>> /\ all_sprites = <<>>

----------------------------------------------------------------------------
(* sprites_to_pico8_format on sprites of one size, 16 or 32 *)

\* every sprite taken so far has the size of the first, 16 or 32
UniformBig ==
    /\ sprites # <<>>
    /\ sprites[1].size \in {16, 32}
    /\ \A k \in 1 .. Len(sprites) : sprites[k].size = sprites[1].size

\* C13: when every sprite has the same size S in {16, 32}, with F = S/8 and
\* P = 16/F, the k-th sprite (0-based) is placed with its top-left at cell
\* (F*(k mod P), F*(k div P)) for every k < P*P, the fit check rejects none
\* of them, no two of them overlap, and after the P*P-th placement the
\* cursor is 256, so that later sprites are dropped by the capacity check.
C13_UniformPacking ==
    UniformBig =>
        LET S  == sprites[1].size
            Fp == S \div 8
            P  == 16 \div Fp
            m  == Min(Len(sprites), P * P)
        IN  /\ pc \in {"pack", "done"}
            /\ Len(placed) = m
            /\ \A k \in 0 .. (m - 1) :
                  /\ placed[k + 1].id = k
                  /\ placed[k + 1].cellX = Fp * (k % P)
                  /\ placed[k + 1].cellY = Fp * (k \div P)
                  /\ \A by \in 0 .. (Fp - 1) : \A bx \in 0 .. (Fp - 1) :
                        sprite_sheet[Fp * (k \div P) + by][Fp * (k % P) + bx]
                            = Block(k, by, bx)
                  /\ \A j \in 0 .. (k - 1) : ~Overlap(placed[j + 1], placed[k + 1])
            /\ m = P * P => sprite_index = 256
            /\ Len(sprites) > P * P => pc = "done"

\* the 65th 16x16 sprite has been taken
C13_Witness ==
    /\ UniformBig
    /\ sprites[1].size = 16
    /\ Len(sprites) = 65
    /\ Len(placed) = 64
    /\ pc = "done"

\* the 17th 32x32 sprite has been taken
C13_Witness32 ==
    /\ UniformBig
    /\ sprites[1].size = 32
    /\ Len(sprites) = 17
    /\ Len(placed) = 16
    /\ pc = "done"

=============================================================================
